---- MODULE Spec2Model ----
(***************************************************************************)
(* A model of the comment-tag highlighter: the Configuration (the syntax   *)
(* registry's read-through cache), the scanners of the Parser (regular     *)
(* expressions over the document text, modelled by what they match) and    *)
(* Parser.UpdateDecorations with the editor it decorates.                  *)
(*                                                                         *)
(* Texts are sequences of one-character strings; offsets are 0-based as in *)
(* the program, so the character at offset o of text is text[o + 1].       *)
(***************************************************************************)
EXTENDS Integers, Sequences, FiniteSets, TLC

(***************************************************************************)
(* Characters and character classes of the regular expressions.            *)
(***************************************************************************)
UpperCase == <<"A","B","C","D","E","F","G","H","I","J","K","L","M",
               "N","O","P","Q","R","S","T","U","V","W","X","Y","Z">>
LowerCase == <<"a","b","c","d","e","f","g","h","i","j","k","l","m",
               "n","o","p","q","r","s","t","u","v","w","x","y","z">>
Digits == {"0","1","2","3","4","5","6","7","8","9"}

\* String.prototype.toLowerCase on one character, as a table.
ToLowerTable == [c \in {UpperCase[i] : i \in 1..26} |->
                   LowerCase[CHOOSE i \in 1..26 : UpperCase[i] = c]]

ToLowerChar(c) == IF c \in DOMAIN ToLowerTable THEN ToLowerTable[c] ELSE c

\* toLowerCase of a string.
ToLowerCase(s) == [i \in 1..Len(s) |-> ToLowerChar(s[i])]

\* The characters "." does not match, and after which "^" matches under the m flag.
LineTerminators == {"\n", "\r"}

\* [ \t]
BlankChars == {" ", "\t"}

\* \s
SpaceChars == {" ", "\t", "\n", "\r"}

\* \w
WordChars == {UpperCase[i] : i \in 1..26} \cup {LowerCase[i] : i \in 1..26}
               \cup Digits \cup {"_"}

\* The characters escapeRegExp escapes: . * + ? ^ $ { } ( ) | [ ] \ (the
\* backslash is not in the model's alphabet).
EscapeRegExpChars == {".", "*", "+", "?", "^", "$", "{", "}", "(", ")", "|", "[", "]"}

\* The characters setTags escapes: ( ) [ { * + . $ ^ \ | ? and, after them, / .
EscapeTagChars == {"(", ")", "[", "{", "*", "+", ".", "$", "^", "|", "?"}

(***************************************************************************)
(* A regular-expression fragment built from a literal string is a sequence *)
(* of atoms: a character and whether a backslash was put before it.        *)
(***************************************************************************)
\* escapeRegExp(input)
escapeRegExp(input) ==
    [i \in 1..Len(input) |-> [esc |-> input[i] \in EscapeRegExpChars, ch |-> input[i]]]

\* .replace(/\//ig, "\\/") applied to an escaped fragment
escapeSlashes(frag) ==
    [i \in 1..Len(frag) |-> [esc |-> frag[i].esc \/ frag[i].ch = "/", ch |-> frag[i].ch]]

\* setTags: item.tag.replace(/([()[{*+.$^\\|?])/g, '\\$1') and the slash escape after it
escapeTag(tag) ==
    escapeSlashes([i \in 1..Len(tag) |-> [esc |-> tag[i] \in EscapeTagChars, ch |-> tag[i]]])

\* One atom against one character. An escaped character and an ordinary
\* character match themselves; an unescaped "." matches all but a line
\* terminator. ic is the i flag.
AtomMatches(a, c, ic) ==
    IF ~a.esc /\ a.ch = "."
    THEN c \notin LineTerminators
    ELSE IF ic THEN ToLowerChar(a.ch) = ToLowerChar(c) ELSE a.ch = c

\* The fragment matches the text at offset o.
MatchAt(frag, text, o, ic) ==
    /\ o >= 0
    /\ o + Len(frag) <= Len(text)
    /\ \A k \in 1..Len(frag) : AtomMatches(frag[k], text[o + k], ic)

\* The number of characters of the class cls from offset o on (a greedy cls*).
RECURSIVE RunLength(_, _, _)
RunLength(text, o, cls) ==
    IF o < Len(text) /\ text[o + 1] \in cls
    THEN 1 + RunLength(text, o + 1, cls)
    ELSE 0

\* Where a greedy ".*" (or [^\r\n]*) started at offset o ends.
RECURSIVE EndOfLine(_, _)
EndOfLine(text, o) ==
    IF o < Len(text) /\ text[o + 1] \notin LineTerminators
    THEN EndOfLine(text, o + 1)
    ELSE o

\* "^" under the m flag.
IsLineStart(text, o) == o = 0 \/ (o <= Len(text) /\ text[o] \in LineTerminators)

\* The substring [from, to) of text.
Slice(text, from, to) == SubSeq(text, from + 1, to)

\* The least and the greatest member of a set of numbers, or d for none.
LeastOr(S, d) == IF S = {} THEN d ELSE CHOOSE o \in S : \A p \in S : o <= p
GreatestOr(S, d) == IF S = {} THEN d ELSE CHOOSE o \in S : \A p \in S : o >= p

\* String.prototype.indexOf: the first offset at which sub occurs, or -1.
IndexOf(text, sub) ==
    LeastOr({o \in 0..(Len(text) - Len(sub)) : Slice(text, o, o + Len(sub)) = sub}, -1)

(***************************************************************************)
(* The tag alternation "(" + characters.join("|") + ")" and its repetition *)
(***************************************************************************)
\* The first tag, in declaration order, whose escapedTag matches at offset o
\* (the alternation tries its branches left to right); 0 when none does.
FirstTagAt(text, o, tags) ==
    LeastOr({k \in 1..Len(tags) : MatchAt(tags[k].escapedTag, text, o, TRUE)}, 0)

\* "(t1|t2|...)+" started at offset o where a tag matches: the greedy
\* repetition takes tags while one matches, and what follows it, "(.*)",
\* never fails, so the first path is the one taken. The group captures its
\* last iteration: [from, to) is that capture, to the end of the repetition.
RECURSIVE TagRun(_, _, _)
TagRunFrom(text, o, q, tags) ==
    IF FirstTagAt(text, q, tags) = 0
    THEN [from |-> o, to |-> q]
    ELSE TagRun(text, q, tags)

TagRun(text, o, tags) ==
    TagRunFrom(text, o, o + Len(tags[FirstTagAt(text, o, tags)].escapedTag), tags)

(***************************************************************************)
(* genSingleLineRegex and one exec of the expression it builds.            *)
(***************************************************************************)
\* "(" + s.delimiter + ")+" started at offset o: the offsets at which the
\* repetition can end, in the order backtracking tries them (each branch of
\* the alternation in turn; after a branch, more iterations before stopping).
RECURSIVE DelimiterRunEnds(_, _, _, _)
DelimiterRunEnds(text, o, delimiter, k) ==
    IF k > Len(delimiter)
    THEN <<>>
    ELSE (IF Len(delimiter[k]) > 0 /\ MatchAt(delimiter[k], text, o, TRUE)
          THEN DelimiterRunEnds(text, o + Len(delimiter[k]), delimiter, 1)
                 \o <<o + Len(delimiter[k])>>
          ELSE <<>>)
         \o DelimiterRunEnds(text, o, delimiter, k + 1)

\* After the anchor (the delimiters, or the line start) ends at offset e:
\* the blanks "( |\t)*" are taken greedily and given back one at a time
\* until a tag matches. The offset at which the tags start, or -1.
TagStartAfterBlanks(text, e, tags) ==
    GreatestOr({p \in e..(e + RunLength(text, e, BlankChars)) :
                  FirstTagAt(text, p, tags) # 0}, -1)

\* The first of the anchor ends, in order, after which the tags can start.
RECURSIVE FirstTagStart(_, _, _, _)
FirstTagStartOr(text, ends, tags, k, p) ==
    IF p # -1 THEN p ELSE FirstTagStart(text, ends, tags, k + 1)

FirstTagStart(text, ends, tags, k) ==
    IF k > Len(ends)
    THEN -1
    ELSE FirstTagStartOr(text, ends, tags, k, TagStartAfterBlanks(text, ends[k], tags))

\* The expression of genSingleLineRegex tried at offset o: the offset at
\* which the tag repetition starts, or -1 when there is no match at o.
\* plain is the line-start-anchored form "(^)+([ \t]*[ \t]*)".
SingleLineTagStart(text, o, s, tags, plain) ==
    IF plain
    THEN IF IsLineStart(text, o) THEN TagStartAfterBlanks(text, o, tags) ELSE -1
    ELSE FirstTagStart(text, DelimiterRunEnds(text, o, s.delimiter, 1), tags, 1)

\* The match at offset o whose tag repetition captured run last, as [index,
\* length, m3] (match.index, match[0].length, match[3]).
SingleLineMatch(text, o, run) ==
    [index |-> o, length |-> EndOfLine(text, run.to) - o, m3 |-> Slice(text, run.from, run.to)]

NoMatch == [index |-> -1, length |-> 0, m3 |-> <<>>]

SingleLineMatchAt(text, o, s, tags, plain) ==
    IF o = -1
    THEN NoMatch
    ELSE SingleLineMatch(text, o, TagRun(text, SingleLineTagStart(text, o, s, tags, plain), tags))

\* regEx.exec(text) with lastIndex = from: the leftmost match at or after
\* from; NoMatch when exec returns null.
SingleLineExec(text, from, s, tags, plain) ==
    SingleLineMatchAt(text,
        LeastOr({o \in from..Len(text) : SingleLineTagStart(text, o, s, tags, plain) # -1}, -1),
        s, tags, plain)

(***************************************************************************)
(* The document: vscode.TextDocument's positionAt, offsetAt and getText.   *)
(* Documents of the model end their lines with a line feed.                *)
(***************************************************************************)
\* The offset clamped into the text, as positionAt and validateRange do.
ClampOffset(text, o) == IF o < 0 THEN 0 ELSE IF o > Len(text) THEN Len(text) ELSE o

\* The offsets at which the lines of the text start.
LineStarts(text) == {0} \cup {o \in 1..Len(text) : text[o] = "\n"}

\* The position of the (clamped) offset o, before being the line starts at
\* or before it.
PositionOf(o, before) ==
    [line |-> Cardinality(before) - 1, character |-> o - GreatestOr(before, 0)]

\* document.positionAt(offset)
positionAt(text, offset) ==
    PositionOf(ClampOffset(text, offset),
               {b \in LineStarts(text) : b <= ClampOffset(text, offset)})

\* The offset of the character of a line that starts at offset start, cut
\* to the length of the line.
OffsetInLine(text, start, character) ==
    IF character > EndOfLine(text, start) - start
    THEN EndOfLine(text, start)
    ELSE start + character

\* document.offsetAt(position): the position is validated first (a line past
\* the last one is the end of the text, a character past the end of its line
\* is the end of that line).
OffsetOf(text, pos, starts) ==
    IF pos.line >= Cardinality(starts)
    THEN Len(text)
    ELSE OffsetInLine(text,
             CHOOSE b \in starts : Cardinality({c \in starts : c < b}) = pos.line,
             pos.character)

offsetAt(text, pos) == OffsetOf(text, pos, LineStarts(text))

\* No range: the scan is over the whole document.
NoRange == [none |-> TRUE]

\* new vscode.Range(startPos, endPos)
Range(startPos, endPos) == [start |-> startPos, end |-> endPos]

\* document.getText(range)
getText(text, range) ==
    IF range = NoRange
    THEN text
    ELSE Slice(text, offsetAt(text, range.start), offsetAt(text, range.end))

\* input.range ? document.offsetAt(input.range.start) : 0
RangeOffset(input) ==
    IF input.range = NoRange THEN 0 ELSE offsetAt(input.text, input.range.start)

(***************************************************************************)
(* genCommentFormat and processState.                                      *)
(***************************************************************************)
\* The result of a syntax lookup that found nothing (undefined).
Undefined == [undefined |-> TRUE]

\* A CommentConfig: an absent lineComment is the empty string and an absent
\* blockComment the empty tuple (both are tested for truthiness only).
CommentConfig(line, block) == [lineComment |-> line, blockComment |-> block]

\* genCommentFormat(singleLine, start, end), singleLine being a string or
\* null (the empty string here): the delimiter is a list of alternatives,
\* one for a string.
genCommentFormat(singleLine, start, end) ==
    [delimiter |-> IF Len(singleLine) > 0
                   THEN <<escapeSlashes(escapeRegExp(singleLine))>>
                   ELSE <<>>,
     blockCommentStart |-> IF Len(start) > 0 /\ Len(end) > 0 THEN escapeRegExp(start) ELSE <<>>,
     blockCommentEnd |-> IF Len(start) > 0 /\ Len(end) > 0 THEN escapeRegExp(end) ELSE <<>>]

JSDocLanguages == {"apex", "javascript", "javascriptreact", "typescript", "typescriptreact"}

IgnoreFirstLineLanguages == {"elixir", "python", "tcl"}

\* The flag a config sets for single-line scanning.
SingleLineFlag(config, blockCommentStart) == Len(blockCommentStart) > 0

\* processState(input), config being what GetCommentConfiguration returned.
\* A field the code leaves undefined is FALSE (or the empty fragment): each
\* is only tested for truthiness, or read behind such a test.
UndefinedConfig == CommentConfig(<<>>, <<>>)

\* The state for a config that is defined (or the empty one, with defined
\* FALSE), its block delimiters being blockCommentStart and blockCommentEnd.
StateOf(input, config, defined, blockCommentStart, blockCommentEnd, commentFormat) ==
    [supportedLanguage |->
        IF input.languageCode = "plaintext"
        THEN input.contributions.highlightPlainText
        ELSE defined,
     ignoreFirstLine |-> input.languageCode \in IgnoreFirstLineLanguages,
     isPlainText |-> input.languageCode = "plaintext",
     highlightJSDoc |-> input.languageCode \in JSDocLanguages,
     highlightSingleLineComments |->
        defined /\ SingleLineFlag(config, blockCommentStart),
     highlightMultilineComments |->
        /\ defined
        /\ Len(blockCommentStart) > 0 /\ Len(blockCommentEnd) > 0
        /\ input.contributions.multilineComments,
     delimiter |-> IF defined THEN commentFormat.delimiter ELSE <<>>,
     blockCommentStart |-> IF defined THEN commentFormat.blockCommentStart ELSE <<>>,
     blockCommentEnd |-> IF defined THEN commentFormat.blockCommentEnd ELSE <<>>]

StateWith(input, config, defined, blockCommentStart, blockCommentEnd) ==
    StateOf(input, config, defined, blockCommentStart, blockCommentEnd,
            genCommentFormat(IF Len(config.lineComment) > 0
                             THEN config.lineComment ELSE blockCommentStart,
                             blockCommentStart, blockCommentEnd))

StateFor(input, config, defined) ==
    StateWith(input, config, defined,
              IF Len(config.blockComment) > 0 THEN config.blockComment[1] ELSE <<>>,
              IF Len(config.blockComment) > 0 THEN config.blockComment[2] ELSE <<>>)

processState(input, config) ==
    IF config = Undefined
    THEN StateFor(input, UndefinedConfig, FALSE)
    ELSE StateFor(input, config, TRUE)

(***************************************************************************)
(* What a scanner call does: it returns its decorations, throws, or never  *)
(* returns.                                                                *)
(***************************************************************************)
Returns(decorations) == [outcome |-> "returns", decorations |-> decorations]
Throws == [outcome |-> "throws", decorations |-> <<>>]
Diverges == [outcome |-> "diverges", decorations |-> <<>>]

\* input.tags.find(item => item.tag.toLowerCase() === matchString.toLowerCase()):
\* the index of the first such tag, 0 for undefined.
FindTag(tags, matchString) ==
    LeastOr({k \in 1..Len(tags) : ToLowerCase(tags[k].tag) = ToLowerCase(matchString)}, 0)

\* A decoration of the tag's style over [from, to), offsets of the document.
Decoration(input, tag, from, to) ==
    [type |-> tag.decoration,
     range |-> Range(positionAt(input.text, from), positionAt(input.text, to))]

(***************************************************************************)
(* findSingleLineComments.                                                 *)
(***************************************************************************)
\* s.isPlainText && input.contributions.highlightPlainText
PlainGrammar(input, s) == s.isPlainText /\ input.contributions.highlightPlainText

\* The first-line test with lines counted from 1.
IgnoredFirstLineFromOne(s, startPos) ==
    s.ignoreFirstLine /\ startPos.line = 1 /\ startPos.character = 0

\* The first-line test of the loop.
IgnoredFirstLine(s, startPos) ==
    s.ignoreFirstLine /\ startPos.line = 0 /\ startPos.character = 0

\* A start one character into the match.
SingleLineStartInside(m) == m.index + 1

\* Where the decoration of a match starts, an offset of the scanned text.
SingleLineStart(m) == m.index

\* The decoration of one match, if its tag is found: one or none.
SingleLineFound(input, m, offset, k) ==
    IF k = 0
    THEN <<>>
    ELSE <<Decoration(input, input.tags[k], offset + SingleLineStart(m),
                      offset + m.index + m.length)>>

\* The while loop, from lastIndex = from on; SingleLineStep is its body for
\* the match m.
RECURSIVE SingleLineLoop(_, _, _, _, _)
SingleLineStep(input, s, text, offset, m) ==
    IF m.index = -1
    THEN <<>>
    ELSE (IF IgnoredFirstLine(s, positionAt(input.text, offset + m.index))
          THEN <<>>
          ELSE SingleLineFound(input, m, offset, FindTag(input.tags, m.m3)))
         \o SingleLineLoop(input, s, text, offset, m.index + m.length)

SingleLineLoop(input, s, text, offset, from) ==
    SingleLineStep(input, s, text, offset,
                   SingleLineExec(text, from, s, input.tags, PlainGrammar(input, s)))

\* findSingleLineComments(input, s). For an unsupported language
\* genSingleLineRegex returns '', which matches the empty string at offset 0
\* and leaves lastIndex there: match[3] is undefined, so the callback of
\* find throws on the first tag, and with nothing to call it on, or with the
\* match skipped as the first line, the loop never ends.
findSingleLineComments(input, s) ==
    IF ~s.highlightSingleLineComments
    THEN Returns(<<>>)
    ELSE IF ~s.supportedLanguage
         THEN IF IgnoredFirstLine(s, positionAt(input.text, RangeOffset(input)))
                 \/ Len(input.tags) = 0
              THEN Diverges
              ELSE Throws
         ELSE Returns(SingleLineLoop(input, s, getText(input.text, input.range),
                                     RangeOffset(input), 0))

(***************************************************************************)
(* The block expressions: the outer one finds a comment block, the inner   *)
(* one the tagged lines of a block.                                        *)
(***************************************************************************)
\* "(" + start + "[\s])+" (ws) or "(\/\*\*)+" (not ws) started at offset o:
\* the offsets at which the repetition can end, more iterations first; e is
\* the end of one iteration.
RECURSIVE BlockStartEnds(_, _, _, _)
BlockStartEndsTo(text, o, start, ws, e) ==
    IF /\ MatchAt(start, text, o, FALSE)
       /\ (ws => (e <= Len(text) /\ text[e] \in SpaceChars))
    THEN BlockStartEnds(text, e, start, ws) \o <<e>>
    ELSE <<>>

BlockStartEnds(text, o, start, ws) ==
    BlockStartEndsTo(text, o, start, ws, o + Len(start) + (IF ws THEN 1 ELSE 0))

\* The lazy "([\s\S]*?)" and the end delimiter after it: the first offset at
\* or after e at which the end delimiter matches, or -1.
BlockEndFrom(text, e, end) ==
    LeastOr({j \in e..Len(text) : MatchAt(end, text, j, FALSE)}, -1)

\* The first of the start-run ends, in order, after which the block closes:
\* the offset just past the end delimiter, or -1; j is where the end
\* delimiter is found after ends[k].
RECURSIVE FirstBlockClose(_, _, _, _)
FirstBlockCloseOr(text, ends, end, k, j) ==
    IF j # -1 THEN j + Len(end) ELSE FirstBlockClose(text, ends, end, k + 1)

FirstBlockClose(text, ends, end, k) ==
    IF k > Len(ends)
    THEN -1
    ELSE FirstBlockCloseOr(text, ends, end, k, BlockEndFrom(text, ends[k], end))

\* The outer expression with "(^|[ \t])" taken as the line start at o, and
\* as the one blank at o: the offset just past the match, or -1.
BlockCloseAsStart(text, o, start, ws, end) ==
    IF IsLineStart(text, o)
    THEN FirstBlockClose(text, BlockStartEnds(text, o, start, ws), end, 1)
    ELSE -1

BlockCloseAsBlank(text, o, start, ws, end) ==
    IF o < Len(text) /\ text[o + 1] \in BlankChars
    THEN FirstBlockClose(text, BlockStartEnds(text, o + 1, start, ws), end, 1)
    ELSE -1

\* The outer expression tried at offset o, the line start first.
BlockCloseOr(asStart, text, o, start, ws, end) ==
    IF asStart # -1 THEN asStart ELSE BlockCloseAsBlank(text, o, start, ws, end)

BlockCloseAt(text, o, start, ws, end) ==
    BlockCloseOr(BlockCloseAsStart(text, o, start, ws, end), text, o, start, ws, end)

\* regEx.exec(text) of the outer expression with lastIndex = from, as
\* [index, length]; index = -1 when exec returns null.
BlockMatchAt(text, o, start, ws, end) ==
    IF o = -1
    THEN [index |-> -1, length |-> 0]
    ELSE [index |-> o, length |-> BlockCloseAt(text, o, start, ws, end) - o]

BlockExec(text, from, start, ws, end) ==
    BlockMatchAt(text,
        LeastOr({o \in from..Len(text) : BlockCloseAt(text, o, start, ws, end) # -1}, -1),
        start, ws, end)

\* "([ ]*|[:])+([^*/][^\r\n]*)" after a tag that ends at offset q: the
\* separators (a run of r of them) are taken greedily and given back until
\* a character other than * and / follows (a line terminator is such a
\* character). The offset at which the match ends, or -1.
SeparatorRestEndOf(block, q, r) ==
    IF q + r < Len(block) /\ block[q + r + 1] \notin {"*", "/"}
    THEN EndOfLine(block, q + r + 1)
    ELSE IF r > 0 THEN EndOfLine(block, q + r) ELSE -1

SeparatorRestEnd(block, q) == SeparatorRestEndOf(block, q, RunLength(block, q, {" ", ":"}))

\* The tags tried in order at offset p: the first one that matches and after
\* which the rest of the inner expression matches; 0 when none does.
BlockTagAt(block, p, tags) ==
    LeastOr({k \in 1..Len(tags) :
               /\ MatchAt(tags[k].escapedTag, block, p, TRUE)
               /\ SeparatorRestEnd(block, p + Len(tags[k].escapedTag)) # -1}, 0)

\* The offsets at which group 2 can end for a line that starts at offset o
\* with a blanks: "[ \t]*[ \t]*" or, with star, "[ \t]*\*[ \t]*".
PrefixEndsOf(block, o, star, a) ==
    IF ~star
    THEN o..(o + a)
    ELSE IF o + a < Len(block) /\ block[o + a + 1] = "*"
         THEN (o + a + 1)..(o + a + 1 + RunLength(block, o + a + 1, BlankChars))
         ELSE {}

PrefixEnds(block, o, star) == PrefixEndsOf(block, o, star, RunLength(block, o, BlankChars))

\* The inner expression tried at the line start o: the end of group 2 that
\* is taken (blanks are given back one at a time until a tag matches), or -1.
BlockLinePrefixEnd(block, o, tags, star) ==
    IF ~IsLineStart(block, o)
    THEN -1
    ELSE GreatestOr({p \in PrefixEnds(block, o, star) : BlockTagAt(block, p, tags) # 0}, -1)

\* The match of the inner expression at offset o with group 2 ending at p
\* and the tag ending at q, as [index, length, g2 (line[2].length),
\* m3 (line[3])].
BlockLineMatch(block, o, p, q) ==
    [index |-> o, length |-> SeparatorRestEnd(block, q) - o, g2 |-> p - o,
     m3 |-> Slice(block, p, q)]

NoLine == [index |-> -1, length |-> 0, g2 |-> 0, m3 |-> <<>>]

BlockLineMatchFrom(block, o, p, tags) ==
    BlockLineMatch(block, o, p, p + Len(tags[BlockTagAt(block, p, tags)].escapedTag))

BlockLineMatchAt(block, o, tags, star) ==
    IF o = -1
    THEN NoLine
    ELSE BlockLineMatchFrom(block, o, BlockLinePrefixEnd(block, o, tags, star), tags)

\* commentRegEx.exec(commentBlock) with lastIndex = from; NoLine when exec
\* returns null.
BlockLineExec(block, from, tags, star) ==
    BlockLineMatchAt(block,
        LeastOr({o \in from..Len(block) : BlockLinePrefixEnd(block, o, tags, star) # -1}, -1),
        tags, star)

\* The decoration of one line of a block, if its tag is found.
BlockLineFound(input, line, base, k) ==
    IF k = 0
    THEN <<>>
    ELSE <<Decoration(input, input.tags[k], base + line.index + line.g2,
                      base + line.index + line.length)>>

\* The inner while loop over one comment block that starts at the document
\* offset base (offset + match.index); BlockLineStep is its body.
RECURSIVE BlockLineLoop(_, _, _, _, _)
BlockLineStep(input, block, base, star, line) ==
    IF line.index = -1
    THEN <<>>
    ELSE BlockLineFound(input, line, base, FindTag(input.tags, line.m3))
         \o BlockLineLoop(input, block, base, star, line.index + line.length)

BlockLineLoop(input, block, base, star, from) ==
    BlockLineStep(input, block, base, star, BlockLineExec(block, from, input.tags, star))

\* The outer while loop; BlockStep is its body for the match m.
RECURSIVE BlockLoop(_, _, _, _, _, _, _, _)
BlockStep(input, text, offset, start, ws, end, star, m) ==
    IF m.index = -1
    THEN <<>>
    ELSE BlockLineLoop(input, Slice(text, m.index, m.index + m.length),
                       offset + m.index, star, 0)
         \o BlockLoop(input, text, offset, start, ws, end, star, m.index + m.length)

BlockLoop(input, text, offset, start, ws, end, star, from) ==
    BlockStep(input, text, offset, start, ws, end, star,
              BlockExec(text, from, start, ws, end))

\* findBlockComments(input, s)
findBlockComments(input, s) ==
    IF ~s.highlightMultilineComments
    THEN Returns(<<>>)
    ELSE Returns(BlockLoop(input, getText(input.text, input.range), RangeOffset(input),
                           s.blockCommentStart, TRUE, s.blockCommentEnd, FALSE, 0))

\* The delimiters of the expression /(^|[ \t])(\/\*\*)+([\s\S]*?)(\*\/)/gm
JSDocStart == escapeSlashes(escapeRegExp(<<"/", "*", "*">>))
JSDocEnd == escapeSlashes(escapeRegExp(<<"*", "/">>))

\* The test on which findJSDocComments returns at once.
JSDocSkipped(s) == ~s.highlightMultilineComments /\ ~s.highlightJSDoc

\* findJSDocComments(input, s)
findJSDocComments(input, s) ==
    IF JSDocSkipped(s)
    THEN Returns(<<>>)
    ELSE Returns(BlockLoop(input, getText(input.text, input.range), RangeOffset(input),
                           JSDocStart, FALSE, JSDocEnd, TRUE, 0))

(***************************************************************************)
(* findMarkdownTextComments.                                               *)
(***************************************************************************)
\* The branches of "(\* |- |\* \[ \] |- \[ \])", in order.
Bullets == << <<"*", " ">>, <<"-", " ">>,
              <<"*", " ", "[", " ", "]", " ">>, <<"-", " ", "[", " ", "]", " ">> >>

\* The bullets tried in order at offset o: the offset at which the tags
\* start after the first bullet that lets the rest match, or -1; p is where
\* they start after bullet k.
RECURSIVE BulletTagStart(_, _, _, _)
BulletTagStartOr(text, o, tags, k, p) ==
    IF p # -1 THEN p ELSE BulletTagStart(text, o, tags, k + 1)

BulletTagStart(text, o, tags, k) ==
    IF k > Len(Bullets)
    THEN -1
    ELSE BulletTagStartOr(text, o, tags, k,
             IF /\ o + Len(Bullets[k]) <= Len(text)
                /\ Slice(text, o, o + Len(Bullets[k])) = Bullets[k]
             THEN TagStartAfterBlanks(text, o + Len(Bullets[k]), tags)
             ELSE -1)

\* The list-item expression tried at offset o: where the tags start, or -1.
\* A bullet is no blank, so "^[ \t]*" takes the whole run of blanks.
MarkdownTagStart(text, o, tags) ==
    IF IsLineStart(text, o)
    THEN BulletTagStart(text, o + RunLength(text, o, BlankChars), tags, 1)
    ELSE -1

\* The match at offset o whose tag repetition captured run last, as [index,
\* length, m2].
MarkdownMatch(text, o, run) ==
    [index |-> o, length |-> EndOfLine(text, run.to) - o, m2 |-> Slice(text, run.from, run.to)]

MarkdownMatchAt(text, o, tags) ==
    IF o = -1
    THEN [index |-> -1, length |-> 0, m2 |-> <<>>]
    ELSE MarkdownMatch(text, o, TagRun(text, MarkdownTagStart(text, o, tags), tags))

\* regEx.exec(text) with lastIndex = from.
MarkdownExec(text, from, tags) ==
    MarkdownMatchAt(text,
        LeastOr({o \in from..Len(text) : MarkdownTagStart(text, o, tags) # -1}, -1), tags)

\* The decoration of one list item, if its tag is found; the positions are
\* taken at match.index, no offset added.
MarkdownFound(input, m, k) ==
    IF k = 0
    THEN <<>>
    ELSE <<Decoration(input, input.tags[k], m.index, m.index + m.length)>>

\* The while loop; MarkdownStep is its body for the match m.
RECURSIVE MarkdownLoop(_, _, _)
MarkdownStep(input, text, m) ==
    IF m.index = -1
    THEN <<>>
    ELSE MarkdownFound(input, m, FindTag(input.tags, m.m2))
         \o MarkdownLoop(input, text, m.index + m.length)

MarkdownLoop(input, text, from) == MarkdownStep(input, text, MarkdownExec(text, from, input.tags))

\* findMarkdownTextComments(input)
findMarkdownTextComments(input) ==
    IF input.languageCode # "markdown" \/ ~input.contributions.highlightMarkdown
    THEN Returns(<<>>)
    ELSE Returns(MarkdownLoop(input, getText(input.text, input.range), 0))

(***************************************************************************)
(* findMarkdownCodeComments: the fences and the input of the scan of one.  *)
(***************************************************************************)
\* The grave accent (U+0060), which a string of the module cannot hold.
GraveAccent == "grave"

\* The fence delimiter, three grave accents.
Backticks == <<GraveAccent, GraveAccent, GraveAccent>>

\* The fence expression tried at offset o: the fence, the blanks and the
\* word of the language hint (each run taken whole: what follows a run is
\* not of its class), the blanks after it, and the lazy interior up to the
\* next fence. h and b are the offsets at which match[1] and match[2] start,
\* w the length of match[1]; close is the offset of the closing fence, -1
\* when there is no match at o.
FenceClose(text, o, w, b) ==
    IF o + 3 <= Len(text) /\ Slice(text, o, o + 3) = Backticks /\ w > 0
    THEN LeastOr({j \in b..(Len(text) - 3) : Slice(text, j, j + 3) = Backticks}, -1)
    ELSE -1

FenceBody(text, o, h, w, b) ==
    [hint |-> h, word |-> w, body |-> b, close |-> FenceClose(text, o, w, b)]

FenceWord(text, o, h, w) ==
    FenceBody(text, o, h, w, h + w + RunLength(text, h + w, SpaceChars))

FenceHint(text, o, h) == FenceWord(text, o, h, RunLength(text, h, WordChars))

FenceAt(text, o) == FenceHint(text, o, o + 3 + RunLength(text, o + 3, SpaceChars))

\* The match at offset o, f being the fence there, as [index, length, m1, m2].
FenceMatch(text, o, f) ==
    [index |-> o, length |-> f.close + 3 - o,
     m1 |-> Slice(text, f.hint, f.hint + f.word),
     m2 |-> Slice(text, f.body, f.close)]

NoFence == [index |-> -1, length |-> 0, m1 |-> <<>>, m2 |-> <<>>]

FenceMatchAt(text, o) == IF o = -1 THEN NoFence ELSE FenceMatch(text, o, FenceAt(text, o))

\* regEx.exec(text) with lastIndex = from; NoFence when exec returns null.
FenceExec(text, from) ==
    FenceMatchAt(text, LeastOr({o \in from..Len(text) : FenceAt(text, o).close # -1}, -1))

(***************************************************************************)
(* Language ids and the alias table of configuration.ts.                   *)
(***************************************************************************)
\* MARKDOWN_CODE_TO_LANGUAGE_MAP as its key/value pairs (a key given twice
\* keeps its last value).
MARKDOWN_CODE_TO_LANGUAGE_MAP ==
    {<<"bash", "bash">>, <<"bat", "bat">>, <<"batch", "bat">>, <<"c", "c">>,
     <<"clj", "clojure">>, <<"clojure", "clojure">>, <<"cpp", "cpp">>, <<"cs", "csharp">>,
     <<"csharp", "csharp">>, <<"css", "css">>, <<"docker", "dockerfile">>, <<"dockerfile", "dockerfile">>,
     <<"elixir", "elixir">>, <<"erl", "erlang">>, <<"erlang", "erlang">>, <<"ex", "elixir">>,
     <<"fs", "fsharp">>, <<"fsharp", "fsharp">>, <<"go", "go">>, <<"gradle.kts", "groovy">>,
     <<"gradle", "groovy">>, <<"groovy", "groovy">>, <<"haskell", "haskell">>, <<"hs", "haskell">>,
     <<"html", "html">>, <<"ini", "ini">>, <<"java", "java">>, <<"javascript", "javascript">>,
     <<"js", "javascript">>, <<"json", "json">>, <<"kotlin", "kotlin">>, <<"kt", "kotlin">>,
     <<"less", "less">>, <<"lua", "lua">>, <<"pascal", "pascal">>, <<"perl", "perl">>,
     <<"perl6", "perl6">>, <<"php", "php">>, <<"powershell", "powershell">>, <<"properties", "properties">>,
     <<"ps", "powershell">>, <<"py", "python">>, <<"python", "python">>, <<"r", "r">>,
     <<"raku", "perl6">>, <<"rb", "ruby">>, <<"rs", "rust">>, <<"ruby", "ruby">>,
     <<"rust", "rust">>, <<"sass", "sass">>, <<"scala", "scala">>, <<"scss", "scss">>,
     <<"sh", "shell">>, <<"shell", "shell">>, <<"sql", "sql">>, <<"swift", "swift">>,
     <<"ts", "typescript">>, <<"typescript", "typescript">>, <<"vb", "vb">>, <<"vbnet", "vb">>,
     <<"visualbasic", "vb">>, <<"xml", "xml">>, <<"yaml", "yaml">>, <<"yml", "yaml">>}

AliasKeys == {p[1] : p \in MARKDOWN_CODE_TO_LANGUAGE_MAP}

\* MARKDOWN_CODE_TO_LANGUAGE_MAP.get(languageCode) || languageCode. The
\* constructor of Configuration maps to itself every key of the table that
\* is a language id of the registry; known are those ids.
CanonicalLanguage(languageCode, known) ==
    IF languageCode \in AliasKeys /\ languageCode \notin known
    THEN (CHOOSE p \in MARKDOWN_CODE_TO_LANGUAGE_MAP : p[1] = languageCode)[2]
    ELSE languageCode

\* A language id is a string; the hint of a fence is read from the text, so
\* the ids that occur in documents are spelled out. A word that spells none
\* of them is the id Unlisted, which no table and no registry holds.
Spelling ==
    [id \in {"py", "python", "js", "yml", "plaintext"} |->
       CASE id = "py" -> <<"p", "y">>
         [] id = "python" -> <<"p", "y", "t", "h", "o", "n">>
         [] id = "js" -> <<"j", "s">>
         [] id = "yml" -> <<"y", "m", "l">>
         [] id = "plaintext" -> <<"p", "l", "a", "i", "n", "t", "e", "x", "t">>]

Unlisted == "unlisted"

LanguageOfWord(word) ==
    IF \E id \in DOMAIN Spelling : Spelling[id] = word
    THEN CHOOSE id \in DOMAIN Spelling : Spelling[id] = word
    ELSE Unlisted

(***************************************************************************)
(* Parser.setTags and Parser.genInput.                                     *)
(***************************************************************************)
\* setTags: one CommentTag per item of contributions.tags, in order, each
\* with a decoration type of its own; parser names the Parser that made it.
setTags(items, parser) ==
    [i \in 1..Len(items) |->
       [tag |-> items[i], escapedTag |-> escapeTag(items[i]), decoration |-> <<parser, i>>]]

\* genInput: the input of a scan of a whole document.
genInput(text, languageId, contributions, tags) ==
    [text |-> text, languageCode |-> languageId, range |-> NoRange,
     contributions |-> contributions, tags |-> tags]

(***************************************************************************)
(* findMarkdownCodeComments with every lookup answered at once: registry   *)
(* maps a canonical language id to what GetCommentConfiguration returns    *)
(* for it.                                                                 *)
(***************************************************************************)
\* What a lookup of languageCode returns; k is the canonical id.
LookupCanonical(registry, k) == IF k \in DOMAIN registry THEN registry[k] ELSE Undefined

Lookup(registry, languageCode) ==
    LookupCanonical(registry, CanonicalLanguage(languageCode, DOMAIN registry))

\* Where the interior of a fence starts, an offset of match[0].
CodeBlockIndex(text, m) == IndexOf(Slice(text, m.index, m.index + m.length), m.m2)

\* newInput of one fence: the language of the hint and the range of the
\* interior, which starts at the document offset from.
FenceRange(input, m, from) ==
    [input EXCEPT
       !.languageCode = LanguageOfWord(m.m1),
       !.range = Range(positionAt(input.text, from),
                       positionAt(input.text, from + Len(m.m2)))]

FenceInput(input, text, m) == FenceRange(input, m, m.index + CodeBlockIndex(text, m))

\* The decorations of one fence: the single-line scanner on the interior,
\* and the block scanner after it.
FenceBlock(single, newInput, newState) ==
    IF single.outcome # "returns"
    THEN single
    ELSE Returns(single.decorations \o findBlockComments(newInput, newState).decorations)

FenceScan(newInput, newState) ==
    FenceBlock(findSingleLineComments(newInput, newState), newInput, newState)

\* The scan of the fence of newInput.
FenceScanOf(newInput, registry) ==
    FenceScan(newInput, processState(newInput, Lookup(registry, newInput.languageCode)))

\* The decorations of a fence and of the loop after it.
FenceRest(here, rest) ==
    IF rest.outcome # "returns" THEN rest ELSE Returns(here.decorations \o rest.decorations)

\* The while loop over the fences; FenceStep is its body for the match m,
\* here being the scan of its fence.
RECURSIVE FenceLoop(_, _, _, _)
FenceHere(input, text, m, registry, here) ==
    IF here.outcome # "returns"
    THEN here
    ELSE FenceRest(here, FenceLoop(input, text, m.index + m.length, registry))

FenceStep(input, text, m, registry) ==
    IF m.index = -1
    THEN Returns(<<>>)
    ELSE FenceHere(input, text, m, registry,
                   FenceScanOf(FenceInput(input, text, m), registry))

FenceLoop(input, text, from, registry) == FenceStep(input, text, FenceExec(text, from), registry)

findMarkdownCodeComments(input, registry) ==
    IF input.languageCode # "markdown"
    THEN Returns(<<>>)
    ELSE FenceLoop(input, getText(input.text, input.range), 0, registry)

(***************************************************************************)
(* The inputs the scans of the model are run on.                           *)
(***************************************************************************)
\* How many filler lines may stand before the text of a document.
MaxPad == 1

Str_TODO == <<"T", "O", "D", "O">>
Str_todo == <<"t", "o", "d", "o">>

\* The tag lists of contributions.tags the model draws from.
TagLists ==
    {<<Str_TODO>>,
     <<<<"!">>, <<"?">>, Str_TODO>>,
     <<Str_todo, Str_TODO, <<"?">>, <<"!">>>>}

\* Syntax entries as language packages declare them: a line comment and a
\* block comment, a line comment only, a block comment only.
SlashEntry == CommentConfig(<<"/", "/">>, <<<<"/", "*">>, <<"*", "/">>>>)
HashBlockEntry == CommentConfig(<<"#">>, <<<<"\"", "\"", "\"">>, <<"\"", "\"", "\"">>>>)
HashEntry == CommentConfig(<<"#">>, <<>>)
BlockOnlyEntry == CommentConfig(<<>>, <<<<"<", "!", "-", "-">>, <<"-", "-", ">">>>>)

Entries == {SlashEntry, HashBlockEntry, HashEntry, BlockOnlyEntry}

\* The registry as the packages of a stock installation fill it: plaintext
\* has no entry.
StockRegistry ==
    [k \in {"javascript", "python", "yaml", "markdown"} |->
       CASE k = "javascript" -> SlashEntry
         [] k = "python" -> HashBlockEntry
         [] k = "yaml" -> HashEntry
         [] k = "markdown" -> BlockOnlyEntry]

DocumentLanguages == {"javascript", "python", "yaml", "markdown", "plaintext"}

\* The stock registry with the lookup of one language answered otherwise:
\* by another entry, or by undefined (no entry, or a file that cannot be
\* read or parsed).
RegistryWith(k, e) == [j \in DOMAIN StockRegistry \cup {k} |->
                         IF j = k THEN e ELSE StockRegistry[j]]

\* The languages whose lookup a scan of a document of language id reads.
LookedUp(id) == IF id = "markdown" THEN {"markdown", "python", "yaml", "javascript"} ELSE {id}

Registries(id) == {RegistryWith(k, e) : k \in LookedUp(id), e \in Entries \cup {Undefined}}

Nl == <<"\n">>
Sp == <<" ">>
Fence == Backticks

\* Texts written with the line-comment delimiter d.
DelimiterTexts(d) ==
    {d \o Sp \o Str_TODO \o <<":", " ", "x">>,
     d \o Sp \o Str_TODO \o <<" ", "a">> \o Nl \o <<"x">> \o Nl \o d \o Sp \o Str_TODO \o <<" ", "a">>,
     <<"x", " ">> \o d \o d \o <<"\t">> \o Str_todo \o <<" ", "y">>,
     d \o <<" ", "!", "?", " ", "x">>,
     d \o <<" ", "n", "o">> \o Nl \o d \o Str_TODO}

\* Plain lines, a documentation block, block comments.
OtherTexts ==
    {<<" ", " ">> \o Str_TODO \o <<" ", "x">> \o Nl \o Str_todo,
     <<"\t", "?", "!", " ", "a">> \o Nl \o <<"x", " ">> \o Str_TODO,
     <<"/", "*", "*">> \o Nl \o <<" ", "*", " ">> \o Str_TODO \o <<" ", "x">> \o Nl
        \o <<" ", "*", "/">>,
     <<"/", "*">> \o Nl \o <<" ", " ">> \o Str_todo \o <<":", " ", "a">> \o Nl
        \o <<"*", "/", " ", "/", "*", " ", "!", " ", "*", "/">>}

\* Markdown texts: fences with a language hint, a list item.
MarkdownTexts ==
    {Fence \o Spelling["py"] \o Nl \o <<"#", " ">> \o Str_TODO \o <<" ", "f", "i", "x">>
        \o Nl \o Fence,
     <<"-", " ">> \o Str_TODO \o <<" ", "x">> \o Nl \o Fence \o Spelling["yml"] \o Nl
        \o <<"#", " ">> \o Str_TODO \o <<" ", "f", "i", "x">> \o Nl \o Fence,
     Fence \o Spelling["python"] \o <<" ", "#", " ">> \o Str_TODO
        \o <<" ", "f", "i", "x">> \o Fence,
     Fence \o Spelling["js"] \o Nl \o <<"/", "/", " ", "!", " ", "a">> \o Nl
        \o <<"/", "*">> \o Nl \o <<" ", "?", " ", "b">> \o Nl \o <<"*", "/">> \o Nl \o Fence}

\* n filler lines.
RECURSIVE Pad(_)
Pad(n) == IF n = 0 THEN <<>> ELSE <<"x">> \o Nl \o Pad(n - 1)

\* The texts of the documents of language id: Markdown texts for Markdown,
\* the others for every other language, after up to MaxPad filler lines.
Texts(id) ==
    LET base == IF id = "markdown"
                THEN MarkdownTexts
                ELSE DelimiterTexts(<<"/", "/">>) \cup DelimiterTexts(<<"#">>) \cup OtherTexts
    IN {Pad(n) \o t : n \in 0..MaxPad, t \in base}

\* The toggles of the configuration. A toggle the scan of a document of
\* language id never reads is left off.
Toggles(id) ==
    {c \in [multilineComments : BOOLEAN, highlightPlainText : BOOLEAN,
            highlightMarkdown : BOOLEAN] :
       /\ (id # "plaintext" => ~c.highlightPlainText)
       /\ (id # "markdown" => ~c.highlightMarkdown)}

(***************************************************************************)
(* The state of the extension: activate's variables, the Configuration,    *)
(* the editors of the window, and the UpdateDecorations calls in flight.   *)
(***************************************************************************)
VARIABLES
    installed,            \* vscode.extensions.all: language id -> configuration path
    aliasCorrected,       \* the keys of the alias table the constructor mapped to themselves
    languageConfigFiles,  \* Configuration.languageConfigFiles
    commentConfig,        \* Configuration.commentConfig
    settings,             \* vscode.workspace.getConfiguration('better-comments')
    parser,               \* activate's parser
    activeEditor,         \* activate's activeEditor
    document,             \* the text of the document of each editor
    applied,              \* the ranges each editor shows, by decoration type
    timeout,              \* activate's timeout: the handle of the last timer set, 0 for none
    timers,               \* the handles of the timers the host will still fire
    scans,                \* the UpdateDecorations calls that have not returned
    events,               \* the number of events of the window so far
    invalidations,        \* history: the number of UpdateLanguagesDefinitions calls
    failed,               \* history: the keys whose read failed since the last of them
    calls,                \* history: the GetCommentConfiguration calls of the last step
    completed,            \* history: the UpdateDecorations call that returned in the last step
    scanStarted           \* history: the last step called parser.UpdateDecorations

sysVars == <<installed, aliasCorrected, languageConfigFiles, commentConfig, settings, parser,
             activeEditor, document, applied, timeout, scans, events, invalidations,
             failed, calls, completed, timers, scanStarted>>

(***************************************************************************)
(* The scan of one document with every lookup answered at once: the steps  *)
(* of Parser.UpdateDecorations up to the decorations it found.             *)
(***************************************************************************)
VARIABLES
    scanPc,        \* the call UpdateDecorations makes next
    scanInput,     \* genInput(activeEditor)
    scanRegistry,  \* what GetCommentConfiguration returns, by canonical id
    scanState,     \* the IParserState
    scanFound      \* what each scanner returned, by its name

scanVars == <<scanPc, scanInput, scanRegistry, scanState, scanFound>>

NotRun == [outcome |-> "not run", decorations |-> <<>>]

\* The state before processState has returned.
NoState == [none |-> TRUE]

\* The extension around the scan: no editor is active and nothing is cached.
NoEntries == [k \in {} |-> k]
StockPaths == [k \in DOMAIN StockRegistry |-> k]

Scanners == {"findSingleLineComments", "findBlockComments", "findJSDocComments",
             "findMarkdownTextComments", "findMarkdownCodeComments"}

ScanInit ==
    /\ scanPc = "processState"
    /\ \E id \in DocumentLanguages, items \in TagLists :
          \E text \in Texts(id), c \in Toggles(id) :
             /\ scanInput = genInput(text, id, c, setTags(items, 1))
             /\ scanRegistry \in Registries(id)
    /\ scanState = NoState
    /\ scanFound = [f \in Scanners |-> NotRun]
    /\ installed = StockPaths
    /\ aliasCorrected = DOMAIN installed
    /\ languageConfigFiles = installed
    /\ commentConfig = NoEntries
    /\ settings = scanInput.contributions
    /\ parser = [gen |-> 1, contributions |-> settings, tags |-> scanInput.tags]
    /\ activeEditor = "none"
    /\ document = NoEntries
    /\ applied = NoEntries
    /\ timeout = 0
    /\ timers = {}
    /\ scans = <<>>
    /\ events = 0
    /\ invalidations = 1
    /\ failed = {}
    /\ calls = <<>>
    /\ completed = NoState
    /\ scanStarted = FALSE

\* const state = await processState(intput)
ScanProcessState ==
    /\ scanPc = "processState"
    /\ scanState' = processState(scanInput, Lookup(scanRegistry, scanInput.languageCode))
    /\ scanPc' = "findSingleLineComments"
    /\ UNCHANGED <<scanInput, scanRegistry, scanFound>>
    /\ UNCHANGED sysVars

\* One scanner call; a call that does not return ends the scan.
ScanCall(f, result, next) ==
    /\ scanPc = f
    /\ scanFound' = [scanFound EXCEPT ![f] = result]
    /\ scanPc' = IF result.outcome = "returns" THEN next ELSE result.outcome
    /\ UNCHANGED <<scanInput, scanRegistry, scanState>>
    /\ UNCHANGED sysVars

ScanSingleLine ==
    ScanCall("findSingleLineComments", findSingleLineComments(scanInput, scanState),
             "findBlockComments")

ScanBlock ==
    ScanCall("findBlockComments", findBlockComments(scanInput, scanState),
             "findJSDocComments")

ScanJSDoc ==
    ScanCall("findJSDocComments", findJSDocComments(scanInput, scanState),
             "findMarkdownTextComments")

ScanMarkdownText ==
    ScanCall("findMarkdownTextComments", findMarkdownTextComments(scanInput),
             "findMarkdownCodeComments")

ScanMarkdownCode ==
    ScanCall("findMarkdownCodeComments", findMarkdownCodeComments(scanInput, scanRegistry),
             "done")

ScanNext ==
    \/ ScanProcessState
    \/ ScanSingleLine
    \/ ScanBlock
    \/ ScanJSDoc
    \/ ScanMarkdownText
    \/ ScanMarkdownCode

(***************************************************************************)
(* The language packages, the settings and the editors the extension runs  *)
(* with.                                                                   *)
(***************************************************************************)
\* The number of events of the window (changes of the extensions, of the
\* settings, of the active editor, of a document) in a run.
MaxEvents == 3

\* The number of calls of UpdateDecorations that wait at a time.
MaxScans == 2

\* A configuration file that cannot be read or parsed.
Unreadable == [unreadable |-> TRUE]

\* The configuration files of the language packages, by path: the
\* "comments" of a file that parses.
Files ==
    [path \in {"js1", "js2", "md1"} |->
       CASE path = "js1" -> SlashEntry
         [] path = "js2" -> Unreadable
         [] path = "md1" -> BlockOnlyEntry]

\* What vscode.extensions.all can hold: the configuration path each language
\* id is contributed with.
Installations ==
    {[k \in {"javascript", "markdown"} |->
        CASE k = "javascript" -> js
          [] k = "markdown" -> "md1"] : js \in {"js1", "js2"}}

\* The installation the window starts with: every file can be read.
StockInstallation == CHOOSE extensions \in Installations : extensions["javascript"] = "js1"

\* The values of the section 'better-comments' of the settings.
SettingsChoices ==
    {[tags |-> items, multilineComments |-> TRUE, highlightPlainText |-> FALSE,
      highlightMarkdown |-> TRUE] : items \in {<<Str_TODO, <<"!">>>>, <<<<"!">>>>}}

\* The settings the window starts with.
DefaultSettings == CHOOSE s \in SettingsChoices : Len(s.tags) = 2

\* The editors of the window, the language of the document of each, and the
\* texts its document goes through.
Editors == {"e1", "e2"}

NoEditor == "none"

LanguageId == [e \in Editors |-> IF e = "e1" THEN "javascript" ELSE "markdown"]

DocumentTexts ==
    [e \in Editors |->
       IF e = "e1"
       THEN << <<"/", "/", " ">> \o Str_TODO \o <<" ", "a">>,
               <<"x">> \o Nl \o <<"/", "/", " ", "!", " ", "b">> >>
       ELSE << Fence \o Spelling["js"] \o Nl \o <<"/", "/", " ">> \o Str_TODO \o <<" ", "a">>
                  \o Nl \o Fence,
               <<"-", " ", "!", " ", "x">> \o Nl
                  \o Fence \o Spelling["js"] \o Nl \o <<"/", "/", " ", "!", " ", "c">>
                  \o Nl \o Fence >>]

(***************************************************************************)
(* Configuration: UpdateLanguagesDefinitions and GetCommentConfiguration.  *)
(***************************************************************************)
\* A map with no key.
EmptyMap == [k \in {} |-> k]

\* The map m with key k set to v.
MapSet(m, k, v) == [j \in DOMAIN m \cup {k} |-> IF j = k THEN v ELSE m[j]]

\* What UpdateLanguagesDefinitions leaves in languageConfigFiles: the path
\* of every language the extensions contribute is set, no key is deleted.
UpdateLanguagesDefinitions(files, extensions) ==
    [k \in DOMAIN files \cup DOMAIN extensions |->
       IF k \in DOMAIN extensions THEN extensions[k] ELSE files[k]]

\* The Configuration as a call of GetCommentConfiguration finds it;
\* invalidations stamps what the call starts.
ConfigurationOf(corrected, cache, files, now) ==
    [aliasCorrected |-> corrected, commentConfig |-> cache, languageConfigFiles |-> files,
     invalidations |-> now]

NoPath == "none"

\* GetCommentConfiguration for the canonical key k, up to its return or to
\* its readFile: a cached entry is returned ("hit"), a language with no
\* file is undefined and nothing is cached ("none"), otherwise the file of
\* the language is read ("read"). started is the invalidation count when the
\* call that read the entry started.
GetCanonical(k, cfg) ==
    IF k \in DOMAIN cfg.commentConfig
    THEN [key |-> k, outcome |-> "hit", comments |-> cfg.commentConfig[k].comments,
          path |-> NoPath, started |-> cfg.commentConfig[k].started]
    ELSE IF k \notin DOMAIN cfg.languageConfigFiles
         THEN [key |-> k, outcome |-> "none", comments |-> Undefined,
               path |-> NoPath, started |-> cfg.invalidations]
         ELSE [key |-> k, outcome |-> "read", comments |-> Undefined,
               path |-> cfg.languageConfigFiles[k], started |-> cfg.invalidations]

GetCommentConfiguration(languageCode, cfg) ==
    GetCanonical(CanonicalLanguage(languageCode, cfg.aliasCorrected), cfg)

\* What the call returns after readFile: config.comments, or undefined from
\* the catch clause.
ReadResult(path) == IF Files[path] = Unreadable THEN Undefined ELSE Files[path]

\* commentConfig.set(languageCode, ...) of the call a scan waits for.
Cached(cache, scan, comments) ==
    MapSet(cache, scan.key, [comments |-> comments, started |-> scan.started])

(***************************************************************************)
(* Parser and its UpdateDecorations, cut at the reads of files: a call     *)
(* runs until it returns or it waits for a readFile.                       *)
(***************************************************************************)
\* new Parser(configuration), the gen-th one: it reads the settings and
\* creates the decoration types of its tags.
Parser(gen, contributions) ==
    [gen |-> gen, contributions |-> contributions, tags |-> setTags(contributions.tags, gen)]

\* No call that started later has returned.
NotOvertaken == [none |-> TRUE]

\* A call of UpdateDecorations(activeEditor) as it starts: pc is where it
\* waits, key, path and started are of the call of GetCommentConfiguration
\* it waits for, language and range of the newInput of the fence it is at,
\* text and from the text and the lastIndex of findMarkdownCodeComments,
\* found the decorations added so far. newer is history: the tags and the
\* decorations of the call on the same editor that started last among
\* those that started after this one and have returned.
NewScan(editor, p, now) ==
    [editor |-> editor, parser |-> p, issued |-> now, pc |-> "start",
     key |-> "", path |-> NoPath, started |-> now, language |-> "", range |-> NoRange,
     text |-> <<>>, from |-> 0, found |-> <<>>, newer |-> NotOvertaken]

\* genInput(activeEditor), the document as it is now.
InputOf(scan, docs) ==
    genInput(docs[scan.editor], LanguageId[scan.editor], scan.parser.contributions,
             scan.parser.tags)

\* The call waits for the readFile of call.
Suspend(scan, call, pc) ==
    [scan EXCEPT !.pc = pc, !.key = call.key, !.path = call.path, !.started = call.started]

\* The history of calls with one more.
Logged(log, scan, call) ==
    Append(log, [key |-> call.key, outcome |-> call.outcome, comments |-> call.comments,
                 started |-> call.started, issued |-> scan.issued])

\* Two scanner calls in a row.
Chain(a, b) ==
    IF a.outcome # "returns"
    THEN a
    ELSE IF b.outcome # "returns" THEN b ELSE Returns(a.decorations \o b.decorations)

\* The four scanner calls of UpdateDecorations after processState.
DocumentScan(input, s) ==
    Chain(Chain(Chain(findSingleLineComments(input, s), findBlockComments(input, s)),
                findJSDocComments(input, s)),
          findMarkdownTextComments(input))

\* The scan of the fence of newInput, its lookup having returned comments.
FenceScanFor(newInput, comments) == FenceScan(newInput, processState(newInput, comments))

\* The while loop of findMarkdownCodeComments from lastIndex = scan.from on,
\* as [scan, calls]: the call as it returns ("done"), waits ("fence") or
\* fails, and the lookups made on the way.
RECURSIVE FenceRun(_, _, _, _)
FenceRunScan(scan, input, cfg, log, here) ==
    IF here.outcome # "returns"
    THEN [scan |-> [scan EXCEPT !.pc = here.outcome], calls |-> log]
    ELSE FenceRun([scan EXCEPT !.found = @ \o here.decorations], input, cfg, log)

FenceRunCall(scan, newInput, input, cfg, log, call) ==
    IF call.outcome = "read"
    THEN [scan |-> [Suspend(scan, call, "fence") EXCEPT
                      !.language = newInput.languageCode, !.range = newInput.range],
          calls |-> Logged(log, scan, call)]
    ELSE FenceRunScan(scan, input, cfg, Logged(log, scan, call),
                      FenceScanFor(newInput, call.comments))

FenceRunInput(scan, newInput, input, cfg, log) ==
    FenceRunCall(scan, newInput, input, cfg, log,
                 GetCommentConfiguration(newInput.languageCode, cfg))

FenceRunMatch(scan, input, cfg, log, m) ==
    IF m.index = -1
    THEN [scan |-> [scan EXCEPT !.pc = "done"], calls |-> log]
    ELSE FenceRunInput([scan EXCEPT !.from = m.index + m.length],
                       FenceInput(input, scan.text, m), input, cfg, log)

FenceRun(scan, input, cfg, log) ==
    FenceRunMatch(scan, input, cfg, log, FenceExec(scan.text, scan.from))

\* UpdateDecorations after the four scanner calls returned r.
AfterDocumentScan(scan, input, cfg, log, r) ==
    IF r.outcome # "returns"
    THEN [scan |-> [scan EXCEPT !.pc = r.outcome], calls |-> log]
    ELSE IF input.languageCode # "markdown"
         THEN [scan |-> [scan EXCEPT !.pc = "done", !.found = r.decorations], calls |-> log]
         ELSE FenceRun([scan EXCEPT !.found = r.decorations,
                                    !.text = getText(input.text, input.range), !.from = 0],
                       input, cfg, log)

\* UpdateDecorations after the lookup of processState returned comments.
AfterProcessState(scan, input, cfg, log, comments) ==
    AfterDocumentScan(scan, input, cfg, log,
                      DocumentScan(input, processState(input, comments)))

\* UpdateDecorations from its start.
UpdateDecorationsCall(scan, input, cfg, call) ==
    IF call.outcome = "read"
    THEN [scan |-> Suspend(scan, call, "processState"), calls |-> Logged(<<>>, scan, call)]
    ELSE AfterProcessState(scan, input, cfg, Logged(<<>>, scan, call), call.comments)

UpdateDecorations(scan, input, cfg) ==
    UpdateDecorationsCall(scan, input, cfg, GetCommentConfiguration(input.languageCode, cfg))

\* UpdateDecorations from the return of the readFile it waits for.
Resume(scan, input, cfg, comments) ==
    IF scan.pc = "processState"
    THEN AfterProcessState(scan, input, cfg, <<>>, comments)
    ELSE FenceRunScan(scan, input, cfg, <<>>,
                      FenceScanFor([input EXCEPT !.languageCode = scan.language,
                                                 !.range = scan.range], comments))

\* activeEditor.setDecorations(type, ranges) on the ranges an editor shows.
setDecorations(decorations, type, ranges) == MapSet(decorations, type, ranges)

\* map.get(type): the ranges of the decorations of a type, in order.
RangesIn(found) == [i \in 1..Len(found) |-> found[i].range]

RangesOf(found, type) == RangesIn(SelectSeq(found, LAMBDA d : d.type = type))

\* The last loop of UpdateDecorations from tag i on: each type is cleared,
\* then given its ranges.
RECURSIVE ApplyTags(_, _, _, _)
ApplyTags(decorations, tags, found, i) ==
    IF i > Len(tags)
    THEN decorations
    ELSE ApplyTags(setDecorations(setDecorations(decorations, tags[i].decoration, <<>>),
                                  tags[i].decoration, RangesOf(found, tags[i].decoration)),
                   tags, found, i + 1)

\* A loop over the types of the decorations found only.
RECURSIVE ApplyFound(_, _, _, _)
ApplyFound(decorations, tags, found, i) ==
    IF i > Len(tags)
    THEN decorations
    ELSE ApplyFound(IF RangesOf(found, tags[i].decoration) = <<>>
                    THEN decorations
                    ELSE setDecorations(decorations, tags[i].decoration,
                                        RangesOf(found, tags[i].decoration)),
                    tags, found, i + 1)

ApplyFoundTypes(decorations, tags, found) == ApplyFound(decorations, tags, found, 1)

ApplyDecorations(decorations, tags, found) == ApplyTags(decorations, tags, found, 1)

(***************************************************************************)
(* activate and the handlers it registers.                                 *)
(***************************************************************************)
NoScan == [none |-> TRUE]

\* The sequence s without its i-th element.
Without(s, i) == SubSeq(s, 1, i - 1) \o SubSeq(s, i + 1, Len(s))

\* A scanner loop that never ends keeps the extension host busy for good.
Hung == \E i \in 1..Len(scans) : scans[i].pc = "diverges"

\* The handle of activate's timeout before the first setTimeout: undefined.
NoTimer == 0

\* setTimeout(updateDecorations, 100): the host arms a timer and returns its
\* handle, one it has not returned before.
NewTimer(handle) == handle + 1

setTimeout(armed, handle) == armed \cup {handle}

\* A clearTimeout that cancels nothing.
clearNothing(armed, handle) == armed

\* clearTimeout(timeout): the timer of the handle will not fire; a handle
\* whose timer has fired is left as it is.
clearTimeout(armed, handle) == armed \ {handle}

\* triggerUpdateDecorations()
triggerUpdateDecorations ==
    /\ timeout' = NewTimer(timeout)
    /\ timers' = setTimeout(IF timeout # NoTimer THEN clearTimeout(timers, timeout) ELSE timers,
                            NewTimer(timeout))

Init ==
    /\ installed = StockInstallation
    /\ aliasCorrected = DOMAIN installed
    /\ languageConfigFiles = UpdateLanguagesDefinitions(EmptyMap, installed)
    /\ commentConfig = EmptyMap
    /\ settings = DefaultSettings
    /\ parser = Parser(1, settings)
    /\ activeEditor \in Editors \cup {NoEditor}
    /\ document = [e \in Editors |-> DocumentTexts[e][1]]
    /\ applied = [e \in Editors |-> EmptyMap]
    /\ timeout = IF activeEditor # NoEditor THEN NewTimer(NoTimer) ELSE NoTimer
    /\ timers = IF activeEditor # NoEditor THEN setTimeout({}, timeout) ELSE {}
    /\ scanStarted = FALSE
    /\ scans = <<>>
    /\ events = 0
    /\ invalidations = 1
    /\ failed = {}
    /\ calls = <<>>
    /\ completed = NoScan
    /\ scanPc = "off"
    /\ scanInput = NoState
    /\ scanRegistry = EmptyMap
    /\ scanState = NoState
    /\ scanFound = EmptyMap

\* The calls that wait, those before place i being the ones that started
\* before scan, as scan returns: it has overtaken those on its editor.
Overtaken(others, i, scan) ==
    [j \in 1..Len(others) |->
       IF j < i /\ others[j].editor = scan.editor
       THEN [others[j] EXCEPT !.newer = [tags |-> scan.parser.tags, found |-> scan.found]]
       ELSE others[j]]

\* A step of a call of UpdateDecorations that ran up to r.scan: the call
\* waits on (kept in others at place i), or it has returned and the editor
\* shows what it applied, or it has failed.
Settle(r, others, i) ==
    /\ scans' = IF r.scan.pc \in {"processState", "fence", "diverges"}
                THEN SubSeq(others, 1, i - 1) \o <<r.scan>> \o SubSeq(others, i, Len(others))
                ELSE IF r.scan.pc = "done" /\ r.scan.newer = NotOvertaken
                     THEN Overtaken(others, i, r.scan)
                     ELSE others
    /\ applied' = IF r.scan.pc = "done"
                  THEN [applied EXCEPT ![r.scan.editor] =
                          ApplyDecorations(@, r.scan.parser.tags, r.scan.found)]
                  ELSE applied
    /\ completed' = IF r.scan.pc = "done"
                    THEN [editor |-> r.scan.editor, tags |-> r.scan.parser.tags,
                          found |-> r.scan.found, issued |-> r.scan.issued,
                          newer |-> r.scan.newer]
                    ELSE NoScan
    /\ calls' = r.calls

\* vscode.extensions.onDidChange
ExtensionsChange ==
    /\ ~Hung
    /\ events < MaxEvents
    /\ \E extensions \in Installations :
          /\ installed' = extensions
          /\ languageConfigFiles' = UpdateLanguagesDefinitions(languageConfigFiles, extensions)
    /\ parser' = Parser(parser.gen + 1, settings)
    /\ commentConfig' = EmptyMap
    /\ invalidations' = invalidations + 1
    /\ failed' = {}
    /\ calls' = <<>>
    /\ completed' = NoScan
    /\ events' = events + 1
    /\ scanStarted' = FALSE
    /\ UNCHANGED <<aliasCorrected, settings, activeEditor, document, applied, timeout, timers,
                   scans>>
    /\ UNCHANGED scanVars

\* vscode.workspace.onDidChangeConfiguration
ConfigurationChange ==
    /\ ~Hung
    /\ events < MaxEvents
    /\ \E s \in SettingsChoices :
          /\ settings' = s
          /\ parser' = Parser(parser.gen + 1, s)
    /\ languageConfigFiles' = UpdateLanguagesDefinitions(languageConfigFiles, installed)
    /\ commentConfig' = EmptyMap
    /\ invalidations' = invalidations + 1
    /\ failed' = {}
    /\ triggerUpdateDecorations
    /\ scanStarted' = FALSE
    /\ calls' = <<>>
    /\ completed' = NoScan
    /\ events' = events + 1
    /\ UNCHANGED <<installed, aliasCorrected, activeEditor, document, applied, scans>>
    /\ UNCHANGED scanVars

\* vscode.window.onDidChangeActiveTextEditor, with an editor
ChangeActiveTextEditor ==
    /\ ~Hung
    /\ events < MaxEvents
    /\ \E editor \in Editors \ {activeEditor} : activeEditor' = editor
    /\ triggerUpdateDecorations
    /\ scanStarted' = FALSE
    /\ calls' = <<>>
    /\ completed' = NoScan
    /\ events' = events + 1
    /\ UNCHANGED <<installed, aliasCorrected, languageConfigFiles, commentConfig, settings,
                   parser, document, applied, scans, invalidations, failed>>
    /\ UNCHANGED scanVars

\* vscode.workspace.onDidChangeTextDocument: the document of an editor has
\* changed.
ChangeTextDocument ==
    /\ ~Hung
    /\ events < MaxEvents
    /\ \E e \in Editors :
          \E n \in 1..Len(DocumentTexts[e]) :
             /\ DocumentTexts[e][n] # document[e]
             /\ document' = [document EXCEPT ![e] = DocumentTexts[e][n]]
             /\ IF activeEditor = e
                THEN triggerUpdateDecorations
                ELSE UNCHANGED <<timeout, timers>>
    /\ scanStarted' = FALSE
    /\ calls' = <<>>
    /\ completed' = NoScan
    /\ events' = events + 1
    /\ UNCHANGED <<installed, aliasCorrected, languageConfigFiles, commentConfig, settings,
                   parser, activeEditor, applied, scans, invalidations, failed>>
    /\ UNCHANGED scanVars

\* The host fires a timer it has armed.
TimerDue ==
    /\ ~Hung
    /\ Len(scans) < MaxScans
    /\ \E handle \in timers : timers' = timers \ {handle}

\* The timer of triggerUpdateDecorations fires: updateDecorations.
TimerFires ==
    /\ TimerDue
    /\ scanStarted' = (activeEditor # NoEditor)
    /\ IF activeEditor = NoEditor
       THEN UNCHANGED <<scans, applied>> /\ calls' = <<>> /\ completed' = NoScan
       ELSE Settle(UpdateDecorations(
                       NewScan(activeEditor, parser, invalidations),
                       InputOf(NewScan(activeEditor, parser, invalidations), document),
                       ConfigurationOf(aliasCorrected, commentConfig, languageConfigFiles,
                                       invalidations)),
                   scans, Len(scans) + 1)
    /\ UNCHANGED <<installed, aliasCorrected, languageConfigFiles, commentConfig, settings,
                   parser, activeEditor, document, timeout, events, invalidations, failed>>
    /\ UNCHANGED scanVars

\* The readFile the i-th call waits for returns comments: its
\* GetCommentConfiguration caches and returns them, and the call runs on.
ReadFileCaches(i, comments) == commentConfig' = Cached(commentConfig, scans[i], comments)

ReadFileReturns(i, comments) ==
    /\ ReadFileCaches(i, comments)
    /\ failed' = IF Files[scans[i].path] = Unreadable
                 THEN failed \cup {scans[i].key}
                 ELSE failed
    /\ Settle(Resume(scans[i], InputOf(scans[i], document),
                     ConfigurationOf(aliasCorrected, Cached(commentConfig, scans[i], comments),
                                     languageConfigFiles, invalidations),
                     comments),
              Without(scans, i), i)

\* The readFile of a call that waits comes to its end.
ReadFileDue ==
    /\ ~Hung
    /\ \E i \in 1..Len(scans) :
          /\ scans[i].pc \in {"processState", "fence"}
          /\ ReadFileCaches(i, ReadResult(scans[i].path))

ReadFileCompletes ==
    /\ ~Hung
    /\ \E i \in 1..Len(scans) :
          /\ scans[i].pc \in {"processState", "fence"}
          /\ ReadFileReturns(i, ReadResult(scans[i].path))
    /\ scanStarted' = FALSE
    /\ UNCHANGED <<installed, aliasCorrected, languageConfigFiles, settings, parser,
                   activeEditor, document, timeout, timers, events, invalidations>>
    /\ UNCHANGED scanVars

Next ==
    \/ ExtensionsChange
    \/ ConfigurationChange
    \/ ChangeActiveTextEditor
    \/ ChangeTextDocument
    \/ TimerFires
    \/ ReadFileCompletes

vars == <<scanVars, sysVars>>

Spec == Init /\ [][Next]_vars

\* The host fires a timer it has armed unless the timer is cleared, and a
\* readFile whose result is not yet in the cache comes to its end. A step
\* of Next that takes a timer off timers is a step of TimerFires, and one
\* that puts the result of a readFile in the cache is a step of
\* ReadFileCompletes.
FairSpec == Init /\ [][Next]_vars /\ WF_timers(TimerDue) /\ WF_commentConfig(ReadFileDue)


ScanSpec == ScanInit /\ [][ScanNext]_vars

(***************************************************************************)
(* What the properties of a scan speak of.                                 *)
(***************************************************************************)
Text == scanInput.text

Ran(f) == scanFound[f].outcome # "not run"

SingleLine == scanFound["findSingleLineComments"]

\* What the lookup of the document's language returns.
DocumentConfig == Lookup(scanRegistry, scanInput.languageCode)

HasTag(tag) == \E k \in 1..Len(scanInput.tags) : scanInput.tags[k].tag = tag

\* The offsets of a decoration in the document of input.
StartOffset(input, d) == offsetAt(input.text, d.range.start)
EndOffset(input, d) == offsetAt(input.text, d.range.end)

\* The tag whose style a decoration carries.
TagOf(input, d) == input.tags[d.type[2]]

\* line is a whole line of text.
HasLine(text, line) ==
    \E o \in 0..Len(text) :
       /\ IsLineStart(text, o)
       /\ EndOfLine(text, o) = o + Len(line)
       /\ Slice(text, o, o + Len(line)) = line

\* Line n of text (the empty line when the text has no such line).
LineText(text, n) ==
    IF n >= Cardinality(LineStarts(text))
    THEN <<>>
    ELSE Slice(text, offsetAt(text, [line |-> n, character |-> 0]),
               EndOfLine(text, offsetAt(text, [line |-> n, character |-> 0])))

\* The decorations of a list that start on line n.
OnLine(decorations, n) ==
    {i \in 1..Len(decorations) : decorations[i].range.start.line = n}

(***************************************************************************)
(* C1                                                                      *)
(***************************************************************************)
\* The document is the one line d + " TODO: x" for the line-comment
\* delimiter d of its language's syntax entry, and a tag TODO is configured.
\* Plain text (supported by its toggle) and the languages whose first line
\* is suppressed are left aside.
C1_Case ==
    /\ Ran("findSingleLineComments")
    /\ scanInput.languageCode \notin IgnoreFirstLineLanguages \cup {"plaintext"}
    /\ DocumentConfig # Undefined
    /\ Len(DocumentConfig.lineComment) > 0
    /\ Text = DocumentConfig.lineComment \o <<" ">> \o Str_TODO \o <<":", " ", "x">>
    /\ HasTag(Str_TODO)

\* C1: for a language supported by a syntax entry that defines a
\* line-comment delimiter d, whatever else the entry holds, processState then
\* findSingleLineComments on the document d + " TODO: x", with the tag TODO
\* configured, yield exactly one decoration.
C1_OneDecorationPerLineComment ==
    C1_Case => /\ scanState.supportedLanguage
               /\ SingleLine.outcome = "returns"
               /\ Len(SingleLine.decorations) = 1

\* A YAML document "# TODO: x" whose entry defines "#" and no block comment:
\* the scan returns no decoration.
C1_LineOnlyEntryFindsNothing ==
    /\ C1_Case
    /\ scanInput.languageCode = "yaml"
    /\ DocumentConfig = HashEntry
    /\ SingleLine = Returns(<<>>)

(***************************************************************************)
(* C2                                                                      *)
(***************************************************************************)
FirstFence == FenceExec(Text, 0)

\* What the lookup of the hint of the first fence returns.
FenceConfig == Lookup(scanRegistry, LanguageOfWord(FirstFence.m1))

\* The interior of the first fence ends where its closing fence starts.
InteriorEnd == FirstFence.index + FirstFence.length - Len(Backticks)
InteriorStart == InteriorEnd - Len(FirstFence.m2)

Str_TODO_fix == <<"#", " ">> \o Str_TODO \o <<" ", "f", "i", "x">>

\* A Markdown document with one fence whose hint resolves to a language with
\* the line-comment delimiter "#", the line "# TODO fix" in its interior.
C2_Case ==
    /\ Ran("findMarkdownCodeComments")
    /\ scanInput.languageCode = "markdown"
    /\ FirstFence.index # -1
    /\ FenceExec(Text, FirstFence.index + FirstFence.length).index = -1
    /\ FenceConfig # Undefined
    /\ FenceConfig.lineComment = <<"#">>
    /\ HasLine(FirstFence.m2, Str_TODO_fix)
    /\ HasTag(Str_TODO)

\* C2: for such a document findMarkdownCodeComments yields exactly one
\* decoration, and its offsets are document offsets inside the interior of
\* the fence.
C2_FenceCommentDecorated ==
    C2_Case =>
       /\ scanFound["findMarkdownCodeComments"].outcome = "returns"
       /\ Len(scanFound["findMarkdownCodeComments"].decorations) = 1
       /\ \A i \in 1..Len(scanFound["findMarkdownCodeComments"].decorations) :
             LET d == scanFound["findMarkdownCodeComments"].decorations[i]
             IN /\ InteriorStart <= StartOffset(scanInput, d)
                /\ StartOffset(scanInput, d) < EndOffset(scanInput, d)
                /\ EndOffset(scanInput, d) <= InteriorEnd

\* A fence with the hint yml, which the alias table resolves to yaml, whose
\* entry defines "#" and no block comment: no decoration.
C2_YamlFenceFindsNothing ==
    /\ C2_Case
    /\ FirstFence.m1 = Spelling["yml"]
    /\ FenceConfig = HashEntry
    /\ scanFound["findMarkdownCodeComments"] = Returns(<<>>)

(***************************************************************************)
(* C3                                                                      *)
(***************************************************************************)
\* C3: when processState leaves supportedLanguage false, each of
\* findSingleLineComments, findBlockComments and findJSDocComments returns
\* the empty list.
C3_UnsupportedFindsNothing ==
    \A f \in {"findSingleLineComments", "findBlockComments", "findJSDocComments"} :
       (Ran(f) /\ ~scanState.supportedLanguage) => scanFound[f] = Returns(<<>>)

\* A JavaScript document whose lookup returned undefined: findJSDocComments
\* returns a decoration.
C3_JSDocFoundUnsupported ==
    /\ Ran("findJSDocComments")
    /\ scanInput.languageCode = "javascript"
    /\ DocumentConfig = Undefined
    /\ ~scanState.supportedLanguage
    /\ Len(scanFound["findJSDocComments"].decorations) > 0

(***************************************************************************)
(* C4                                                                      *)
(***************************************************************************)
\* A decoration of findSingleLineComments(input, s) starts where the match
\* starts, at a delimiter (in the plain grammar, at a line start), the tag
\* token after it, and ends where the line of the scanned text ends.
StartsAtMatch(input, s, d) ==
    LET text == getText(input.text, input.range)
        o == StartOffset(input, d) - RangeOffset(input)
        e == EndOffset(input, d) - RangeOffset(input)
    IN /\ IF PlainGrammar(input, s)
          THEN IsLineStart(text, o)
          ELSE \E k \in 1..Len(s.delimiter) : MatchAt(s.delimiter[k], text, o, TRUE)
       /\ e = EndOfLine(text, o)
       /\ \E p \in o..e :
             /\ MatchAt(TagOf(input, d).escapedTag, text, p, TRUE)
             /\ ~PlainGrammar(input, s) => p > o

AllStartAtMatch(input, s, found) ==
    \A i \in 1..Len(found.decorations) : StartsAtMatch(input, s, found.decorations[i])

\* The call of findSingleLineComments on the first fence of a document.
FenceCallInput == FenceInput(scanInput, Text, FirstFence)
FenceCallState == processState(FenceCallInput, Lookup(scanRegistry, FenceCallInput.languageCode))

\* C4 (as the code has it): every decoration of findSingleLineComments, on a
\* document and on the interior of a fence, starts at the first character of
\* the match, which is the comment delimiter (the line start in the plain
\* grammar) and not the tag token, and ends at the end of that line of the
\* scanned text.
C4_DecorationSpansMatch ==
    /\ Ran("findSingleLineComments") => AllStartAtMatch(scanInput, scanState, SingleLine)
    /\ (Ran("findMarkdownCodeComments") /\ scanInput.languageCode = "markdown"
          /\ FirstFence.index # -1)
       => AllStartAtMatch(FenceCallInput, FenceCallState,
                          findSingleLineComments(FenceCallInput, FenceCallState))

\* C4 (as claimed): every decoration of findSingleLineComments starts at the
\* first character of the tag token and ends at the end of the line.
C4_DecorationStartsAtTag ==
    Ran("findSingleLineComments") =>
       \A i \in 1..Len(SingleLine.decorations) :
          LET d == SingleLine.decorations[i]
          IN /\ MatchAt(TagOf(scanInput, d).escapedTag, Text, StartOffset(scanInput, d), TRUE)
             /\ EndOffset(scanInput, d) = EndOfLine(Text, StartOffset(scanInput, d))

\* "// TODO: x" in JavaScript: one decoration, from offset 0 to the end.
C4_DelimiterDecorated ==
    /\ Ran("findSingleLineComments")
    /\ Text = <<"/", "/", " ">> \o Str_TODO \o <<":", " ", "x">>
    /\ Len(SingleLine.decorations) = 1
    /\ StartOffset(scanInput, SingleLine.decorations[1]) = 0
    /\ EndOffset(scanInput, SingleLine.decorations[1]) = Len(Text)

(***************************************************************************)
(* C5                                                                      *)
(***************************************************************************)
\* Without the first-line test the scan would decorate a comment at the
\* first character of the document.
TaggedAtStart ==
    \E d \in {SingleLineLoop(scanInput, [scanState EXCEPT !.ignoreFirstLine = FALSE],
                             Text, 0, 0)[i] :
                i \in 1..Len(SingleLineLoop(scanInput,
                                            [scanState EXCEPT !.ignoreFirstLine = FALSE],
                                            Text, 0, 0))} :
       d.range.start = [line |-> 0, character |-> 0]

\* A scan of a document of a language with first-line suppression, with
\* single-line scanning on.
C5_Case ==
    /\ Ran("findSingleLineComments")
    /\ scanInput.languageCode \in IgnoreFirstLineLanguages
    /\ scanState.supportedLanguage
    /\ scanState.highlightSingleLineComments

\* C5: a tagged comment that starts at line 0, character 0 gets no
\* decoration, and the same comment as line 2 of that document gets exactly
\* one.
C5_FirstLineSuppressed ==
    C5_Case =>
       /\ SingleLine.outcome = "returns"
       /\ \A i \in 1..Len(SingleLine.decorations) :
             SingleLine.decorations[i].range.start # [line |-> 0, character |-> 0]
       /\ (TaggedAtStart /\ LineText(Text, 2) = LineText(Text, 0))
          => /\ OnLine(SingleLine.decorations, 0) = {}
             /\ Cardinality(OnLine(SingleLine.decorations, 2)) = 1
             /\ \A i \in OnLine(SingleLine.decorations, 2) :
                   SingleLine.decorations[i].range.start.character = 0

\* A Python document whose lines 0 and 2 are the same tagged comment: the
\* one decoration is on line 2.
C5_Line2Decorated ==
    /\ C5_Case
    /\ scanInput.languageCode = "python"
    /\ TaggedAtStart
    /\ LineText(Text, 2) = LineText(Text, 0)
    /\ Len(SingleLine.decorations) = 1
    /\ OnLine(SingleLine.decorations, 2) = {1}

(***************************************************************************)
(* C6                                                                      *)
(***************************************************************************)
\* The lines of the document made of blanks and then a tag.
TaggedLines ==
    {positionAt(Text, o).line : o \in {o \in 0..Len(Text) :
        IsLineStart(Text, o) /\ TagStartAfterBlanks(Text, o, scanInput.tags) # -1}}

C6_Case ==
    /\ Ran("findSingleLineComments")
    /\ scanInput.languageCode = "plaintext"
    /\ scanInput.contributions.highlightPlainText
    /\ DocumentConfig = Undefined

\* C6: a plain-text document with highlightPlainText on and no syntax entry
\* is supported, and each line of blanks followed by a tag gets exactly one
\* decoration.
C6_PlainTextLinesDecorated ==
    C6_Case =>
       /\ scanState.supportedLanguage
       /\ SingleLine.outcome = "returns"
       /\ \A n \in TaggedLines : Cardinality(OnLine(SingleLine.decorations, n)) = 1

\* Such a document with a tagged line, and no decoration.
C6_PlainTextFindsNothing ==
    /\ C6_Case
    /\ TaggedLines # {}
    /\ scanState.supportedLanguage
    /\ SingleLine = Returns(<<>>)

(***************************************************************************)
(* C7                                                                      *)
(***************************************************************************)
\* The tag declared first among those that match where the tag token of the
\* match at offset o begins.
EarliestTagAt(o) ==
    FirstTagAt(Text,
               SingleLineTagStart(Text, o, scanState, scanInput.tags,
                                  PlainGrammar(scanInput, scanState)),
               scanInput.tags)

\* C7: the style of a decoration is that of the earliest-declared tag that
\* matches, case-insensitively, where the tag token begins.
C7_EarliestTagStyles ==
    (Ran("findSingleLineComments") /\ SingleLine.outcome = "returns") =>
       \A i \in 1..Len(SingleLine.decorations) :
          SingleLine.decorations[i].type =
             scanInput.tags[EarliestTagAt(StartOffset(scanInput, SingleLine.decorations[i]))].decoration

\* "// !? x" with the tags "!", "?" declared in this order: the decoration
\* carries the style of "?".
C7_LastTagStyles ==
    /\ Ran("findSingleLineComments")
    /\ Text = <<"/", "/", " ", "!", "?", " ", "x">>
    /\ scanInput.tags[1].tag = <<"!">>
    /\ scanInput.tags[2].tag = <<"?">>
    /\ Len(SingleLine.decorations) = 1
    /\ SingleLine.decorations[1].type = scanInput.tags[2].decoration


(***************************************************************************)
(* C8                                                                      *)
(***************************************************************************)
\* C8: once the read of the file of a key has failed, undefined is cached
\* for the key, and every later call of GetCommentConfiguration for it
\* returns undefined from the cache, reading no file, until
\* UpdateLanguagesDefinitions is called.
C8_FailureStaysCached ==
    /\ \A k \in failed :
          k \in DOMAIN commentConfig /\ commentConfig[k].comments = Undefined
    /\ \A i \in 1..Len(calls) :
          calls[i].key \in failed
             => calls[i].outcome = "hit" /\ calls[i].comments = Undefined

\* A call for a key whose read has failed since the last
\* UpdateLanguagesDefinitions returns comments.
C8_CommentsAfterFailure ==
    \E i \in 1..Len(calls) :
       /\ calls[i].key \in failed
       /\ calls[i].outcome = "hit"
       /\ calls[i].comments # Undefined

(***************************************************************************)
(* C9                                                                      *)
(***************************************************************************)
\* C9: what a call of GetCommentConfiguration hands to a scan was read by a
\* lookup that started at or after the last UpdateLanguagesDefinitions
\* before the scan was issued, under every interleaving of the reads.
C9_NoStaleEntryServed ==
    \A i \in 1..Len(calls) : calls[i].started >= calls[i].issued

\* A scan is served from the cache an entry whose lookup started before the
\* invalidation the scan came after, and the entry is not what the file of
\* the language yields now.
C9_StaleEntryServed ==
    \E i \in 1..Len(calls) :
       /\ calls[i].outcome = "hit"
       /\ calls[i].started < calls[i].issued
       /\ calls[i].comments # ReadResult(languageConfigFiles[calls[i].key])

(***************************************************************************)
(* C10                                                                     *)
(***************************************************************************)
\* The ranges an editor shows for a decoration type.
Shown(editor, type) ==
    IF type \in DOMAIN applied[editor] THEN applied[editor][type] ELSE <<>>

\* C10: as a call of UpdateDecorations returns, the editor shows for every
\* tag of the parser of the call exactly the ranges the call found for the
\* tag, none when it found none.
C10_AppliedIsFound ==
    completed # NoScan =>
       \A i \in 1..Len(completed.tags) :
          Shown(completed.editor, completed.tags[i].decoration)
             = RangesOf(completed.found, completed.tags[i].decoration)

\* A call returns that found ranges for one tag and none for another.
C10_SomeFoundSomeNot ==
    /\ completed # NoScan
    /\ \E i, j \in 1..Len(completed.tags) :
          /\ RangesOf(completed.found, completed.tags[i].decoration) # <<>>
          /\ Shown(completed.editor, completed.tags[i].decoration)
                = RangesOf(completed.found, completed.tags[i].decoration)
          /\ RangesOf(completed.found, completed.tags[j].decoration) = <<>>
          /\ Shown(completed.editor, completed.tags[j].decoration) = <<>>

(***************************************************************************)
(* C11                                                                     *)
(***************************************************************************)
\* At most one timer is armed.
OneTimer == Cardinality(timers) <= 1

\* A step that sets activate's timeout leaves the new timer as the only one
\* armed.
TriggerRearms == timeout' # timeout => timers' = {timeout'} /\ timeout' \notin timers

\* A step that starts a scan is the firing of the timer of the last
\* trigger, and it leaves no timer armed: the triggers since the scan
\* before it have started this scan and no other.
ScanByLastTimer == scanStarted' => timeout \in timers /\ timers' = {}

\* C11: at most one update timer is armed at any time; each call of
\* triggerUpdateDecorations cancels the armed timer and arms a new one; a
\* scan starts only when the timer of the last trigger fires, so a burst of
\* triggers starts one scan; and while an editor is active an armed timer
\* leads to the start of a scan.
C11_Debounce ==
    /\ []OneTimer
    /\ [][TriggerRearms]_vars
    /\ [][ScanByLastTimer]_vars
    /\ (timers # {} /\ activeEditor # NoEditor) ~> scanStarted

\* The first scan of a run starts after two triggers or more.
C11_ScanAfterBurst ==
    /\ scanStarted
    /\ timeout >= 2
    /\ invalidations = 1
    /\ commentConfig = EmptyMap
    /\ Len(scans) = 1

(***************************************************************************)
(* C12                                                                     *)
(***************************************************************************)
\* The decoration types of the tags of a parser.
TypesOf(p) == {p.tags[i].decoration : i \in 1..Len(p.tags)}

\* The decoration types an editor shows ranges for.
ShownTypes(editor) == {type \in DOMAIN applied[editor] : applied[editor][type] # <<>>}

\* A call of UpdateDecorations of the parser that activate holds now, on the
\* active editor, has returned in the last step.
CurrentScanDone ==
    /\ completed # NoScan
    /\ completed.tags = parser.tags
    /\ completed.editor = activeEditor

\* C12: once the Parser has been replaced and a scan of the new Parser on the
\* active editor has returned, the editor shows ranges only for decoration
\* types of the new Parser.
C12_OnlyCurrentHandles ==
    CurrentScanDone => ShownTypes(activeEditor) \subseteq TypesOf(parser)

\* A scan of the second Parser or a later one has returned, and the editor
\* still shows ranges for a decoration type of a Parser before it.
C12_ReplacedHandleShown ==
    /\ CurrentScanDone
    /\ parser.gen > 1
    /\ \E type \in ShownTypes(activeEditor) : type[1] < parser.gen

(***************************************************************************)
(* C13                                                                     *)
(***************************************************************************)
\* The call that returned in the last step had been overtaken: a call on
\* its editor that started after it had returned before it.
ReturnedLate == completed # NoScan /\ completed.newer # NotOvertaken

\* The editor shows, for every tag of the call that started last, the
\* ranges that call found.
ShowsNewer(editor, newer) ==
    \A i \in 1..Len(newer.tags) :
       Shown(editor, newer.tags[i].decoration) = RangesOf(newer.found, newer.tags[i].decoration)

\* C13: when a call of UpdateDecorations returns after a call on the same
\* editor that started later, the editor still shows the ranges of the call
\* that started last.
C13_LastStartedWins == ReturnedLate => ShowsNewer(completed.editor, completed.newer)

\* Two calls of one Parser overlap on the active editor, the one that
\* started first returns last, and the editor shows its ranges in place of
\* those of the call that started last; no call waits and no timer is
\* armed, so that no scan will follow.
C13_EarlierCallWins ==
    /\ ReturnedLate
    /\ completed.editor = activeEditor
    /\ scans = <<>>
    /\ timers = {}
    /\ completed.tags = completed.newer.tags
    /\ ~ShowsNewer(completed.editor, completed.newer)
    /\ \A i \in 1..Len(completed.tags) :
          Shown(completed.editor, completed.tags[i].decoration)
             = RangesOf(completed.found, completed.tags[i].decoration)

====
